---- MODULE Spec2Model ----
(***************************************************************************)
(* SemanticSegImageProcessor                                               *)
(* (multimodal/src/autogluon/multimodal/data/process_semantic_seg_img.py)  *)
(*                                                                         *)
(* One processor object: its configuration is fixed by __init__, then the  *)
(* caller invokes __call__ (which delegates to process_one_sample) or      *)
(* collate_fn.  No attribute is written after __init__ and every other     *)
(* variable is local to one invocation, so invocations are independent and *)
(* a behaviour follows one invocation from the constructed object.         *)
(*                                                                         *)
(* An image reference is [kind, ok]: kind is the Python type of the        *)
(* reference, ok says whether PIL can open and convert it.  A column entry *)
(* is [tag, refs]: tag "list" for a Python list of references, tag         *)
(* "single" for one bare reference (refs then has length 1).  Column names *)
(* are non-empty strings.  Indices idx are 0-based as in the code.         *)
(***************************************************************************)
EXTENDS Integers, Sequences, FiniteSets, TLC

\* ---------------------------------------------------------------- bounds
MaxRefs == 3        \* longest list of references in one column
MaxCap == 2         \* largest max_img_num_per_col given to __init__
ByteLen == 2        \* number of bytes of a bytes / bytearray reference
SizeS == 2          \* model.image_size

\* ------------------------------------------------------------- constants
SEMANTIC_SEGMENTATION_IMG == "semantic_segmentation_img"
SEMANTIC_SEGMENTATION_GT == "semantic_segmentation_gt"
OTHER_MODALITY == "text"
None == "None"
Unbound == "<unbound>"
CoinThreshold == 5  \* 0.5, in tenths

\* ------------------------------------------------------------ input sets
Columns == <<"img_col", "gt_col">>
ColumnSet == {Columns[i] : i \in 1..Len(Columns)}
Modalities == {SEMANTIC_SEGMENTATION_IMG, SEMANTIC_SEGMENTATION_GT, OTHER_MODALITY}

Path(b) == [kind |-> "path", ok |-> b]
IntRef == [kind |-> "int", ok |-> FALSE]
ListRefs == {Path(TRUE), Path(FALSE)}
SingleRefs == {Path(TRUE), Path(FALSE), [kind |-> "url", ok |-> TRUE],
               [kind |-> "bytes", ok |-> TRUE], [kind |-> "bytearray", ok |-> TRUE]}

SeqsUpTo(S, n) == UNION {[1..m -> S] : m \in 0..n}
Entries == {[tag |-> "list", refs |-> s] : s \in SeqsUpTo(ListRefs, MaxRefs)}
             \cup {[tag |-> "single", refs |-> <<r>>] : r \in SingleRefs}

\* feature_modalities: an insertion-ordered dict, as a sequence of items
FeatureModalityMaps ==
    {[i \in 1..Len(Columns) |-> [column |-> Columns[i], modality |-> m[i]]] :
        m \in [1..Len(Columns) -> Modalities]}

CapInputs == (0 - 1)..MaxCap
CoinDraws == {CoinThreshold - 1, CoinThreshold}
TrainTransformInputs == {<<"random_horizontal_flip", "color_jitter">>}

VARIABLES
    cfg_max_img_num_per_col,  \* the max_img_num_per_col argument of __init__
    max_img_num_per_col,      \* self.max_img_num_per_col
    requires_column_info,     \* self.requires_column_info
    train_transforms,         \* self.train_transforms (the composed list)
    pc,                       \* "idle", "loop" (inside the for loop), "done"
    op,                       \* the method invoked last: "none", "__call__", "collate_fn"
    status,                   \* how it ended: "none", "returned", "raised"
    error,                    \* the exception raised, or None
    call_images,              \* the `images` argument of __call__
    image_features,           \* the argument __call__ hands to process_one_sample
    feature_modalities,
    is_training,
    image_column,
    annotation_column,
    per_col_gt_features,      \* <<>> while unbound, else <<entry>>
    idx,                      \* next loop index
    gt,                       \* local gt: <<>> while unbound, else <<image>>
    images,
    gts,
    log,                      \* calls made during this invocation, in order
    ret,                      \* <<>> or <<the returned value>>
    collate_ret               \* <<>> or <<the value collate_fn returned>>

cfgvars == <<cfg_max_img_num_per_col, max_img_num_per_col, requires_column_info, train_transforms>>
callvars == <<call_images, image_features, feature_modalities, is_training, image_column,
              annotation_column, per_col_gt_features, idx, gt, images, gts, log, ret>>
vars == <<cfgvars, pc, op, status, error, callvars, collate_ret>>

\* --------------------------------------------------------------- helpers
Min(a, b) == IF a < b THEN a ELSE b
Max(a, b) == IF a > b THEN a ELSE b

\* __init__: a non-positive max_img_num_per_col is reset to 1
InitCapUncoerced(raw) == raw
InitCap(raw) == IF raw <= 0 THEN 1 ELSE raw

\* get_train_transforms: only "random_horizontal_flip" is recognised
RECURSIVE get_train_transforms(_)
get_train_transforms(names) ==
    IF names = <<>> THEN <<>>
    ELSE IF Head(names) = "random_horizontal_flip"
         THEN <<"RandomHorizontalFlip(1.0)">> \o get_train_transforms(Tail(names))
         ELSE get_train_transforms(Tail(names))

\* isinstance(v, str): file paths and URLs are Python strings
IsStr(r) == r.kind \in {"path", "url"}

\* [v] if isinstance(v, str) else v
NormalizeEntry(v) ==
    IF v.tag = "single" /\ IsStr(v.refs[1]) THEN [tag |-> "list", refs |-> v.refs] ELSE v

\* What Python slicing, indexing and iteration see in a column entry: the
\* elements of a list; the ByteLen integers of a bare bytes / bytearray.
Items(v) ==
    IF v.tag = "list" THEN v.refs ELSE [i \in 1..ByteLen |-> IntRef]

\* s[:n]
Slice(s, n) ==
    IF n >= 0 THEN SubSeq(s, 1, Min(n, Len(s))) ELSE SubSeq(s, 1, Max(0, Len(s) + n))

\* PIL.Image.open(ref) followed by convert succeeds
OpenImage(ref) == ref.ok /\ ref.kind # "int"

\* the mask open at lines 206-207 has no handler: a failure is raised
GtOpenFailsLenient(ref) == FALSE
GtOpenFails(ref) == ~OpenImage(ref)

\* per_col_gt_features[idx]
GtFeatureIndexFirst(i) == 0
GtFeatureIndex(i) == i

\* `if annotation_column:`
Truthy(name) == name # None /\ name # ""

\* `if is_training or annotation_column is not None:` (lines 195, 221)
ReadsGtColumnAlways(training, annotation) == TRUE
ReadsGtColumnOnlyAnnotated(training, annotation) == annotation # None
ReadsGtColumn(training, annotation) == training \/ annotation # None

\* random.random() < 0.5
CoinSucceedsInclusive(r) == r <= CoinThreshold
CoinSucceeds(r) == r < CoinThreshold

\* the scan of feature_modalities.items(): the last column of a modality wins
RECURSIVE ScanModalities(_, _)
ScanModalities(fm, acc) ==
    IF fm = <<>> THEN acc
    ELSE LET item == Head(fm)
             a1 == IF item.modality = SEMANTIC_SEGMENTATION_IMG
                   THEN [acc EXCEPT !.image_column = item.column] ELSE acc
             a2 == IF item.modality = SEMANTIC_SEGMENTATION_GT
                   THEN [a1 EXCEPT !.annotation_column = item.column] ELSE a1
         IN ScanModalities(Tail(fm), a2)

ResolveColumns(fm) ==
    ScanModalities(fm, [image_column |-> Unbound, annotation_column |-> None])

\* ---------------------------------------------------------------- values
\* a decoded PIL image: img.convert(mode)
DecodedImage(col, i, mode) ==
    [kind |-> "pil", shape |-> <<>>,
     parts |-> <<[column |-> col, src |-> i, mode |-> mode, ops |-> <<>>]>>]

ApplyOps(v, names) == [v EXCEPT !.parts[1].ops = @ \o names]

\* self.train_transforms(x): the composed transforms, in order
TrainTransforms(v) == ApplyOps(v, train_transforms)

\* self.img_processor(img): a channel-first [3, S, S] tensor
ImgProcessor(v) ==
    [ApplyOps(v, <<"img_processor">>) EXCEPT !.kind = "tensor", !.shape = <<3, SizeS, SizeS>>]

\* self.gt_processor(gt): a channel-first [1, S, S] tensor, no normalization
GtProcessor(v) ==
    [ApplyOps(v, <<"gt_processor">>) EXCEPT !.kind = "tensor", !.shape = <<1, SizeS, SizeS>>]

RECURSIVE SumDim0(_)
SumDim0(ts) == IF ts = <<>> THEN 0 ELSE Head(ts).shape[1] + SumDim0(Tail(ts))

RECURSIVE AllParts(_)
AllParts(ts) == IF ts = <<>> THEN <<>> ELSE Head(ts).parts \o AllParts(Tail(ts))

\* torch.cat(ts, dim=0) if len(ts) != 0 else torch.tensor([])
CatOrEmpty(ts) ==
    IF Len(ts) # 0
    THEN [kind |-> "tensor", shape |-> <<SumDim0(ts)>> \o Tail(ts[1].shape), parts |-> AllParts(ts)]
    ELSE [kind |-> "tensor", shape |-> <<0>>, parts |-> <<>>]

\* the value stored under image_valid_num_key
ValidNumOfGts(imgs, masks) == Len(masks)
ValidNum(imgs, masks) == Len(imgs)

Event(ev, i, v) == [ev |-> ev, idx |-> i, val |-> v]

\* ------------------------------------------------------------------ Init
\* the state after __init__
Init ==
    /\ cfg_max_img_num_per_col \in CapInputs
    /\ max_img_num_per_col = InitCap(cfg_max_img_num_per_col)
    /\ requires_column_info \in BOOLEAN
    /\ train_transforms \in {get_train_transforms(t) : t \in TrainTransformInputs}
    /\ pc = "idle"
    /\ op = "none"
    /\ status = "none"
    /\ error = None
    /\ call_images = <<>>
    /\ image_features = <<>>
    /\ feature_modalities = <<>>
    /\ is_training = FALSE
    /\ image_column = Unbound
    /\ annotation_column = None
    /\ per_col_gt_features = <<>>
    /\ idx = 0
    /\ gt = <<>>
    /\ images = <<>>
    /\ gts = <<>>
    /\ log = <<>>
    /\ ret = <<>>
    /\ collate_ret = <<>>

\* --------------------------------------------------------------- actions
\* collate_fn (lines 129-153)
PadCollator(pad_val) == [collator |-> "PadCollator", pad_val |-> pad_val]
StackCollator == [collator |-> "StackCollator", pad_val |-> 0]

CollateFnValue ==
    IF requires_column_info
    THEN [type |-> "NotImplementedError", fn |-> {}]
    ELSE [type |-> "dict",
          fn |-> {<<"image", PadCollator(0)>>,
                  <<"image_valid_num", StackCollator>>,
                  <<"label", PadCollator(0)>>}]

collate_fn ==
    /\ pc = "idle"
    /\ pc' = "done"
    /\ op' = "collate_fn"
    /\ status' = "returned"
    /\ error' = None
    /\ collate_ret' = <<CollateFnValue>>
    /\ call_images' = <<>>
    /\ image_features' = <<>>
    /\ feature_modalities' = <<>>
    /\ is_training' = FALSE
    /\ image_column' = Unbound
    /\ annotation_column' = None
    /\ per_col_gt_features' = <<>>
    /\ idx' = 0
    /\ gt' = <<>>
    /\ images' = <<>>
    /\ gts' = <<>>
    /\ log' = <<>>
    /\ ret' = <<>>
    /\ UNCHANGED cfgvars

\* __call__ (lines 255-257) and process_one_sample up to the loop (183-196)
Call ==
    /\ pc = "idle"
    /\ \E imgs \in [ColumnSet -> Entries], fm \in FeatureModalityMaps, training \in BOOLEAN :
        LET feats == [k \in ColumnSet |-> NormalizeEntry(imgs[k])]
            cols == ResolveColumns(fm)
            reads == ReadsGtColumn(training, cols.annotation_column)
            err == IF cols.image_column = Unbound THEN "UnboundLocalError"
                   ELSE IF reads /\ cols.annotation_column \notin DOMAIN feats THEN "KeyError"
                   ELSE None
        IN /\ call_images' = imgs
           /\ image_features' = feats
           /\ feature_modalities' = fm
           /\ is_training' = training
           /\ image_column' = cols.image_column
           /\ annotation_column' = cols.annotation_column
           /\ per_col_gt_features' =
                 IF err = None /\ reads THEN <<feats[cols.annotation_column]>> ELSE <<>>
           /\ pc' = IF err = None THEN "loop" ELSE "done"
           /\ status' = IF err = None THEN "none" ELSE "raised"
           /\ error' = err
    /\ op' = "__call__"
    /\ idx' = 0
    /\ gt' = <<>>
    /\ images' = <<>>
    /\ gts' = <<>>
    /\ log' = <<>>
    /\ ret' = <<>>
    /\ collate_ret' = <<>>
    /\ UNCHANGED cfgvars

\* per_col_image_features[: self.max_img_num_per_col]
Retained == Slice(Items(image_features[image_column]), max_img_num_per_col)

Raised(e, g, lg) ==
    [kind |-> "raise", error |-> e, gt |-> g, images |-> images, gts |-> gts, log |-> lg]

\* lines 204-207: the mask at the same index, when an annotation column is set
GtStage(lg) ==
    IF Truthy(annotation_column)
    THEN LET feats == Items(per_col_gt_features[1])
             i == GtFeatureIndex(idx)
         IN IF i + 1 > Len(feats)
            THEN [error |-> "IndexError", gt |-> gt, log |-> lg]
            ELSE IF GtOpenFails(feats[i + 1])
            THEN [error |-> "DecodeError", gt |-> gt,
                  log |-> Append(lg, Event("open_gt", i, 0))]
            ELSE [error |-> None, gt |-> <<DecodedImage(annotation_column, i, "L")>>,
                  log |-> Append(lg, Event("open_gt", i, 1))]
    ELSE [error |-> None, gt |-> gt, log |-> lg]

\* lines 209-222: augmentation, the two pipelines, the appends
TransformStage(img, g, lg, coin) ==
    IF is_training
    THEN LET lg1 == Append(lg, Event("random", idx, coin))
             aug == CoinSucceeds(coin)
             img1 == IF aug THEN TrainTransforms(img) ELSE img
             lg2 == IF aug THEN Append(lg1, Event("train_transforms_img", idx, 0)) ELSE lg1
         IN IF g = <<>> /\ aug THEN Raised("UnboundLocalError", g, lg2)
            ELSE LET gt1 == IF aug THEN TrainTransforms(g[1]) ELSE g[1]
                     lg3 == IF aug THEN Append(lg2, Event("train_transforms_gt", idx, 0)) ELSE lg2
                     lg4 == Append(lg3, Event("img_processor", idx, 0))
                 IN IF g = <<>> THEN Raised("UnboundLocalError", g, lg4)
                    ELSE [kind |-> "append", error |-> None,
                          gt |-> <<GtProcessor(gt1)>>,
                          images |-> Append(images, ImgProcessor(img1)),
                          gts |-> IF ReadsGtColumn(is_training, annotation_column)
                                  THEN Append(gts, GtProcessor(gt1)) ELSE gts,
                          log |-> Append(lg4, Event("gt_processor", idx, 0))]
    ELSE LET lg1 == Append(lg, Event("img_processor", idx, 0))
         IN IF annotation_column # None
            THEN IF g = <<>> THEN Raised("UnboundLocalError", g, lg1)
                 ELSE [kind |-> "append", error |-> None,
                       gt |-> <<GtProcessor(g[1])>>,
                       images |-> Append(images, ImgProcessor(img)),
                       gts |-> IF ReadsGtColumn(is_training, annotation_column)
                               THEN Append(gts, GtProcessor(g[1])) ELSE gts,
                       log |-> Append(lg1, Event("gt_processor", idx, 0))]
            ELSE [kind |-> "append", error |-> None, gt |-> g,
                  images |-> Append(images, ImgProcessor(img)),
                  gts |-> IF ReadsGtColumn(is_training, annotation_column)
                          THEN Append(gts, g[1]) ELSE gts,
                  log |-> lg1]

\* one pass of the loop body (lines 198-222) for the reference at idx
IterOutcome(coin) ==
    LET img_feature == Retained[idx + 1]
        opened == OpenImage(img_feature)
        lg1 == Append(log, Event("open_img", idx, IF opened THEN 1 ELSE 0))
    IN IF ~opened
       THEN [kind |-> "skip", error |-> None, gt |-> gt, images |-> images, gts |-> gts,
             log |-> lg1]
       ELSE LET g == GtStage(lg1)
            IN IF g.error # None THEN Raised(g.error, g.gt, g.log)
               ELSE TransformStage(DecodedImage(image_column, idx, "RGB"), g.gt, g.log, coin)

Iterate ==
    /\ pc = "loop"
    /\ idx < Len(Retained)
    /\ \E coin \in CoinDraws :
        LET r == IterOutcome(coin)
        IN /\ gt' = r.gt
           /\ images' = r.images
           /\ gts' = r.gts
           /\ log' = r.log
           /\ error' = r.error
           /\ pc' = IF r.kind = "raise" THEN "done" ELSE "loop"
           /\ status' = IF r.kind = "raise" THEN "raised" ELSE "none"
           /\ idx' = IF r.kind = "raise" THEN idx ELSE idx + 1
    /\ UNCHANGED <<cfgvars, op, call_images, image_features, feature_modalities, is_training,
                   image_column, annotation_column, per_col_gt_features, ret, collate_ret>>

\* lines 224-231: the output record
OutputRecord ==
    [image |-> CatOrEmpty(images),
     image_valid_num |-> ValidNum(images, gts),
     label |-> CatOrEmpty(gts)]

Return ==
    /\ pc = "loop"
    /\ idx = Len(Retained)
    /\ ret' = <<OutputRecord>>
    /\ pc' = "done"
    /\ status' = "returned"
    /\ UNCHANGED <<cfgvars, op, error, call_images, image_features, feature_modalities,
                   is_training, image_column, annotation_column, per_col_gt_features, idx, gt,
                   images, gts, log, collate_ret>>

Next == collate_fn \/ Call \/ Iterate \/ Return

Spec == Init /\ [][Next]_vars

\* ================================================================ claims
IsCall == op = "__call__"
Finished == IsCall /\ pc = "done"
Returned == IsCall /\ status = "returned"
HasImageColumn == IsCall /\ image_column # Unbound
GtActive == IsCall /\ annotation_column # None

\* the image column as process_one_sample sees it, and its capped prefix
ImgRefs == Items(image_features[image_column])
GtRefs == Items(image_features[annotation_column])
EffectiveCap == IF cfg_max_img_num_per_col <= 0 THEN 1 ELSE cfg_max_img_num_per_col
Decodable(ref) == ref.ok /\ ref.kind # "int"
DecodedWithin(cap) == {i \in 0..(Min(cap, Len(ImgRefs)) - 1) : Decodable(ImgRefs[i + 1])}

EventsAt(ev, i) == {p \in 1..Len(log) : log[p].ev = ev /\ log[p].idx = i}
EventsNamed(ev) == {p \in 1..Len(log) : log[p].ev = ev}
IsOpenImg(e) == e.ev = "open_img"
Attempts == SelectSeq(log, IsOpenImg)
Indices == 0..(MaxRefs + ByteLen)

\* C1: on a normal return the value under image_valid_num_key is the number of
\* references, among the first max_img_num_per_col of the image column, that
\* decode; a skipped reference adds nothing and a decoded one adds exactly one.
C1_ValidNumCountsDecoded ==
    Returned =>
        /\ ret[1].image_valid_num = Cardinality(DecodedWithin(max_img_num_per_col))
        /\ Cardinality(EventsNamed("img_processor")) = ret[1].image_valid_num
        /\ (\A i \in 1..Min(max_img_num_per_col, Len(ImgRefs)) : Decodable(ImgRefs[i]))
              => ret[1].image_valid_num = Min(max_img_num_per_col, Len(ImgRefs))

C1_Witness ==
    /\ Returned
    /\ Len(Retained) = 2
    /\ ret[1].image_valid_num = 1

\* C2 (as claimed): on a normal return k retained images give an image tensor
\* of shape [k, 3, S, S] whose leading dimension is the valid count, and, when
\* masks are produced, a mask tensor of shape [k, 1, S, S].
C2_LeadingDimIsValidNum ==
    Returned =>
        /\ ret[1].image.shape[1] = ret[1].image_valid_num
        /\ ret[1].image_valid_num > 0 =>
              ret[1].image.shape = <<ret[1].image_valid_num, 3, SizeS, SizeS>>
        /\ Len(gts) > 0 => ret[1].label.shape = <<ret[1].image_valid_num, 1, SizeS, SizeS>>

\* C3: with a ground_truth column active, a normal return stacks as many masks
\* as images, and the mask at every output position comes from the mask-column
\* reference with the same source index as the image at that position.
C3_MaskAlignedWithImage ==
    (Returned /\ GtActive) =>
        /\ Len(gts) = Len(images)
        /\ Len(ret[1].label.parts) = Len(ret[1].image.parts)
        /\ \A j \in 1..Len(ret[1].image.parts) :
              /\ ret[1].image.parts[j].column = image_column
              /\ ret[1].label.parts[j].column = annotation_column
              /\ ret[1].label.parts[j].src = ret[1].image.parts[j].src
              /\ ret[1].label.parts[j].mode = "L"
        /\ {ret[1].image.parts[j].src : j \in 1..Len(ret[1].image.parts)}
              = DecodedWithin(max_img_num_per_col)

C3_Witness ==
    /\ Returned
    /\ GtActive
    /\ Len(ret[1].image.parts) = 1
    /\ ret[1].image.parts[1].src = 1
    /\ ret[1].label.parts[1].src = 1

\* C4: the composed train_transforms is applied to an item's image exactly
\* when it is applied to its mask, before either role pipeline, only in
\* training mode and only when the item's own single coin draw is below 0.5;
\* outside training mode it is never applied and no coin is drawn.
C4_AugmentationGated ==
    IsCall =>
        /\ \A i \in Indices :
              /\ (EventsAt("train_transforms_img", i) # {}) <=> (EventsAt("train_transforms_gt", i) # {})
              /\ Cardinality(EventsAt("random", i)) <= 1
              /\ Cardinality(EventsAt("train_transforms_img", i)) <= 1
              /\ Cardinality(EventsAt("train_transforms_gt", i)) <= 1
              /\ (EventsAt("train_transforms_img", i) # {}) <=>
                    (is_training /\ \E p \in EventsAt("random", i) : 2 * log[p].val < 10)
              /\ \A p \in EventsAt("train_transforms_img", i) \cup EventsAt("train_transforms_gt", i) :
                    /\ \A q \in EventsAt("img_processor", i) \cup EventsAt("gt_processor", i) : p < q
                    /\ \A q \in EventsAt("random", i) : q < p
              /\ (is_training /\ EventsAt("img_processor", i) # {}) => EventsAt("random", i) # {}
        /\ \A j \in 1..Len(images) :
              /\ images[j].parts[1].ops \in {<<"img_processor">>, train_transforms \o <<"img_processor">>}
              /\ (EventsAt("train_transforms_img", images[j].parts[1].src) # {})
                    => images[j].parts[1].ops = train_transforms \o <<"img_processor">>
              /\ (j <= Len(gts) /\ EventsAt("train_transforms_gt", images[j].parts[1].src) # {})
                    => gts[j].parts[1].ops = train_transforms \o <<"gt_processor">>
        /\ ~is_training =>
              EventsNamed("random") \cup EventsNamed("train_transforms_img")
                 \cup EventsNamed("train_transforms_gt") = {}

C4_Witness ==
    /\ Returned
    /\ is_training
    /\ Len(images) = 2
    /\ EventsAt("train_transforms_img", 0) # {}
    /\ EventsAt("train_transforms_gt", 0) # {}
    /\ EventsAt("random", 1) # {}
    /\ EventsAt("train_transforms_img", 1) = {}

\* C5 (as claimed): with requires_column_info set, collate_fn does not return
\* normally and yields no value; without it, it returns exactly the mapping
\* {image_key: zero-pad, label_key: zero-pad, image_valid_num_key: stack}.
C5_CollateFnFailsFast ==
    op = "collate_fn" =>
        IF requires_column_info
        THEN status = "raised" /\ collate_ret = <<>>
        ELSE /\ status = "returned"
             /\ collate_ret = <<[type |-> "dict",
                                 fn |-> {<<"image", PadCollator(0)>>,
                                         <<"label", PadCollator(0)>>,
                                         <<"image_valid_num", StackCollator>>}]>>

\* C5 as the code behaves: the NotImplementedError is returned, not raised
C5_ErrorObjectReturned ==
    /\ op = "collate_fn"
    /\ requires_column_info
    /\ status = "returned"
    /\ collate_ret = <<[type |-> "NotImplementedError", fn |-> {}]>>

\* C6: with a ground_truth column active, an index whose image decodes but
\* whose mask reference fails to decode ends the call with a propagated
\* decoding error and no output record; an image decode failure raises
\* nothing and the loop goes on with the next index.
MaskFailsAt(i) ==
    /\ i < Min(max_img_num_per_col, Len(ImgRefs))
    /\ Decodable(ImgRefs[i + 1])
    /\ i < Len(GtRefs)
    /\ ~Decodable(GtRefs[i + 1])

C6_MaskFailureIsFatal ==
    (HasImageColumn /\ GtActive /\ \E i \in Indices : MaskFailsAt(i)) =>
        /\ status # "returned"
        /\ ret = <<>>
        /\ pc = "done" => (status = "raised" /\ error = "DecodeError")

C6_RaiseNeverFromImage ==
    (IsCall /\ status = "raised" /\ log # <<>>) =>
        /\ Attempts[Len(Attempts)] = Event("open_img", idx, 1)
        /\ error \in {"DecodeError", "IndexError"}
        /\ error = "DecodeError" => log[Len(log)] = Event("open_gt", idx, 0)

C6_ImageFailureSkips ==
    (pc = "loop" /\ idx < Len(Retained) /\ ~Decodable(Retained[idx + 1])) =>
        /\ pc' = "loop"
        /\ status' = "none"
        /\ error' = None
        /\ idx' = idx + 1
        /\ images' = images
        /\ gts' = gts

C6_AsymmetricDecodeFailure ==
    /\ [](C6_MaskFailureIsFatal /\ C6_RaiseNeverFromImage)
    /\ [][C6_ImageFailureSkips]_vars

C6_Witness ==
    /\ IsCall
    /\ status = "raised"
    /\ error = "DecodeError"
    /\ idx = 1
    /\ log[1] = Event("open_img", 0, 0)
    /\ MaskFailsAt(1)

\* C7: when every retained image reference fails to decode, the call raises
\* nothing and returns valid count 0 with an empty image tensor and an empty
\* label tensor: in training mode with a ground_truth column, and outside
\* training mode with or without one, whatever the mask references are.
EmptyTensor == [kind |-> "tensor", shape |-> <<0>>, parts |-> <<>>]

C7_AllImagesFailGivesEmpty ==
    (HasImageColumn /\ (GtActive \/ ~is_training) /\ DecodedWithin(max_img_num_per_col) = {}) =>
        /\ status # "raised"
        /\ error = None
        /\ Finished =>
              /\ status = "returned"
              /\ ret = <<[image |-> EmptyTensor, image_valid_num |-> 0, label |-> EmptyTensor]>>

C7_Witness ==
    /\ Returned
    /\ is_training
    /\ GtActive
    /\ Len(Retained) = 2
    /\ DecodedWithin(max_img_num_per_col) = {}
    /\ Len(GtRefs) = 0
    /\ ret[1].image_valid_num = 0

\* C8 (as claimed): with effective cap c, a call attempts to decode exactly
\* the first min(c, n) of the n image references, in order, reads no image or
\* mask reference at an index >= c, and leaves a valid count <= c.  Stated for
\* the calls that get past the column lookups (a mask column, or not training).
AttemptedIdx == [p \in 1..Len(Attempts) |-> Attempts[p].idx]
FirstIdx(k) == [p \in 1..k |-> p - 1]
NoReadBeyond(c) ==
    \A p \in 1..Len(log) : log[p].ev \in {"open_img", "open_gt"} => log[p].idx < c

C8_AttemptsExactlyFirstCap ==
    (HasImageColumn /\ Finished /\ (GtActive \/ ~is_training)) =>
        /\ AttemptedIdx = FirstIdx(Min(EffectiveCap, Len(ImgRefs)))
        /\ NoReadBeyond(EffectiveCap)
        /\ Len(images) <= EffectiveCap

\* C8 (amended): every call that returns normally has attempted exactly the
\* first min(c, n) image references in order; in every call, finished or not,
\* the attempts so far are the indices 0, 1, ... in order, at most min(c, n) of
\* them, no image or mask reference at an index >= c is read, and the number
\* of images kept is <= c.
C8_CapBoundsAttempts ==
    HasImageColumn =>
        /\ \E k \in 0..Min(EffectiveCap, Len(ImgRefs)) : AttemptedIdx = FirstIdx(k)
        /\ NoReadBeyond(EffectiveCap)
        /\ Len(images) <= EffectiveCap
        /\ Returned =>
              /\ AttemptedIdx = FirstIdx(Min(EffectiveCap, Len(ImgRefs)))
              /\ ret[1].image_valid_num <= EffectiveCap

C8_Witness ==
    /\ Returned
    /\ cfg_max_img_num_per_col = 2
    /\ Len(ImgRefs) = 3
    /\ AttemptedIdx = <<0, 1>>
    /\ ret[1].image_valid_num = 2

\* C9 (as claimed): __call__ turns every column entry that is a single
\* reference, of any kind, into a one-element list and leaves lists unchanged,
\* so process_one_sample receives a list of references for every column.
C9_EveryEntryBecomesList ==
    IsCall =>
        \A k \in ColumnSet :
            /\ image_features[k].tag = "list"
            /\ image_features[k].refs = call_images[k].refs

\* C9 as the code behaves: a bare bytes or bytearray reference is passed on as is
C9_BytesPassedUnwrapped ==
    /\ IsCall
    /\ \E k \in ColumnSet :
          /\ call_images[k].tag = "single"
          /\ call_images[k].refs[1].kind \in {"bytes", "bytearray"}
          /\ image_features[k] = call_images[k]

\* C10 (as claimed): in training mode every decoded retained image is run
\* through the image pipeline and appended whether or not a ground_truth column
\* is active; without one, the call processes the images and touches no mask.
\* Stated for the samples that hold a decodable retained image.
KeptAndProcessed(i) ==
    \E j \in 1..Len(images) :
        /\ images[j].parts[1].src = i
        /\ images[j].parts[1].ops[Len(images[j].parts[1].ops)] = "img_processor"

C10_TrainingWithoutMaskColumn ==
    (HasImageColumn /\ Finished /\ is_training /\ annotation_column = None
        /\ DecodedWithin(max_img_num_per_col) # {}) =>
        /\ status = "returned"
        /\ \A i \in DecodedWithin(max_img_num_per_col) : KeptAndProcessed(i)
        /\ EventsNamed("open_gt") \cup EventsNamed("gt_processor")
              \cup EventsNamed("train_transforms_gt") = {}

\* C10 (amended): in training mode with a ground_truth column active, a call
\* that returns normally has run every decoded retained image through the
\* image pipeline and appended it, and has decoded the mask at the same index,
\* run it through the mask pipeline and appended it; a training-mode call on a
\* sample with no ground_truth column raises KeyError at the lookup of the mask
\* column, before any reference is opened, and returns no record.
C10_TrainingNeedsMaskColumn ==
    (HasImageColumn /\ is_training) =>
        /\ annotation_column = None =>
              /\ pc = "done" /\ status = "raised" /\ error = "KeyError"
              /\ log = <<>> /\ images = <<>> /\ gts = <<>> /\ ret = <<>>
        /\ Returned =>
              /\ GtActive
              /\ \A i \in DecodedWithin(max_img_num_per_col) :
                    /\ KeptAndProcessed(i)
                    /\ EventsAt("open_gt", i) # {}
                    /\ \E j \in 1..Len(gts) :
                          /\ gts[j].parts[1].src = i
                          /\ gts[j].parts[1].ops[Len(gts[j].parts[1].ops)] = "gt_processor"
              /\ Len(images) = Cardinality(DecodedWithin(max_img_num_per_col))
              /\ Len(gts) = Len(images)

C10_Witness ==
    /\ HasImageColumn
    /\ is_training
    /\ annotation_column = None
    /\ error = "KeyError"
    /\ Len(ImgRefs) >= 1
    /\ Decodable(ImgRefs[1])

====
